---- MODULE Spec2Model ----
(***************************************************************************)
(* Model of shutil::pipe (src/src/lib.rs) and shutil::Error                *)
(* (src/src/error.rs): a pipeline of external commands is built stage by   *)
(* stage, every stage but the last is spawned while the next one is        *)
(* prepared, the last one is run to completion and its output decoded.     *)
(*                                                                         *)
(* Indices are 0-based as in the source: stage i is commands[i + 1].       *)
(* Option<T> is a sequence of length at most one.  Byte strings are        *)
(* sequences of integers in 0..255.                                        *)
(***************************************************************************)
EXTENDS Integers, Sequences, FiniteSets, TLC

VARIABLES
    commands,      \* the argument of pipe(): Vec<Vec<&str>>
    os,            \* behaviour of the operating system for this call
    pc,            \* position of the call inside pipe()
    i,             \* loop variable of `for i in 0..commands.len()`
    command,       \* the Command being built in the current iteration
    last_command,  \* Option<Command>
    procs,         \* spawn attempts of this call, in order
    out,           \* Option<Output> of the last stage
    result,        \* Option<Result<String, Error>> returned by the call
    history        \* calls that have returned: their os and result

vars == <<commands, os, pc, i, command, last_command, procs, out, result, history>>

\* Longest pipeline explored.
MaxStages == 3

----------------------------------------------------------------------------
(* Option *)

None == << >>

Some(x) == <<x>>

----------------------------------------------------------------------------
(* error.rs *)

\* The variants of enum ErrorKind.
ErrorKind == {"OsError", "UnknownError", "ExecError", "UnicodeDecodeError"}

\* Error::new
ErrorNew(kind, code, msg) == [kind |-> kind, code |-> code, details |-> msg]

Ok(v) == [tag |-> "Ok", value |-> v]

Err(e) == [tag |-> "Err", error |-> e]

----------------------------------------------------------------------------
(* The operating system: programs, exit statuses, pipes *)

\* Bytes of the argv tokens used by the pipelines.
Utf8(tok) ==
    CASE tok = "foo" -> <<102, 111, 111>>
      [] tok = "\\377" -> <<255>>
      [] OTHER -> << >>

\* What the program named by a token does when the OS is asked to start it:
\* None when it starts, otherwise the io::Error.
SpawnError(program) ==
    CASE program = "/does/not/exist" ->
            Some([raw |-> Some(2), msg |-> "No such file or directory (os error 2)"])
      [] program = "nul\\0byte" ->
            Some([raw |-> None, msg |-> "nul byte found in provided data"])
      [] OTHER -> None

\* ExitStatus: a normal exit with a code, or death by a signal.
Exited(c) == [exited |-> TRUE, val |-> c]

Signaled(s) == [exited |-> FALSE, val |-> s]

\* A started process that never exits has no ExitStatus: this stands for it.
Hung == [exited |-> FALSE, val |-> 0]

\* ExitStatus::success
Success(st) == st.exited /\ st.val = 0

\* ExitStatus::code
Code(st) == IF st.exited THEN Some(st.val) ELSE None

\* The exit statuses a started program can end with, Hung when it may also
\* never end.
Statuses(program) ==
    CASE program = "/usr/bin/false" -> {Exited(1)}
      [] program = "echo" -> {Exited(0)}
      [] program = "rev" -> {Exited(0), Signaled(9), Hung}
      [] program = "tr" -> {Exited(0)}
      [] program = "printf" -> {Exited(0), Exited(1)}
      [] OTHER -> {Exited(0)}

RECURSIVE Join(_)
\* echo: the arguments separated by one space.
Join(args) ==
    IF args = << >> THEN << >>
    ELSE IF Len(args) = 1 THEN Utf8(args[1])
    ELSE Utf8(args[1]) \o <<32>> \o Join(Tail(args))

RECURSIVE Reverse(_)
Reverse(s) == IF s = << >> THEN << >> ELSE Reverse(Tail(s)) \o <<Head(s)>>

RECURSIVE RevLines(_)
\* rev: every line reversed, line ends kept.
RevLines(s) ==
    IF s = << >> THEN << >>
    ELSE IF \E k \in 1..Len(s) : s[k] = 10
         THEN LET nl == CHOOSE k \in 1..Len(s) :
                            s[k] = 10 /\ \A m \in 1..(k - 1) : s[m] # 10
              IN  Reverse(SubSeq(s, 1, nl - 1)) \o <<10>>
                    \o RevLines(SubSeq(s, nl + 1, Len(s)))
         ELSE Reverse(s)

\* tr a-z A-Z
Upper(s) == [k \in 1..Len(s) |-> IF s[k] >= 97 /\ s[k] <= 122 THEN s[k] - 32 ELSE s[k]]

\* What a started program writes to its standard output, given what it reads.
Transform(program, args, input) ==
    CASE program = "echo" -> Join(args) \o <<10>>
      [] program = "printf" -> Join(args)
      [] program = "rev" -> RevLines(input)
      [] program = "tr" -> Upper(input)
      [] OTHER -> << >>

\* The programs that read their standard input to its end before they exit.
ReadsStdin(program) == program \in {"rev", "tr"}

\* Standard input of the calling process.
ParentStdin == << >>

RECURSIVE ValidUtf8(_)
\* String::from_utf8 accepts exactly the well-formed UTF-8 byte sequences.
ValidUtf8(s) ==
    LET Cont(k, lo, hi) == Len(s) >= k /\ s[k] >= lo /\ s[k] <= hi
        Rest(k) == ValidUtf8(SubSeq(s, k, Len(s)))
        b == s[1]
    IN  IF s = << >> THEN TRUE
        ELSE IF b < 128 THEN Rest(2)
        ELSE IF b >= 194 /\ b <= 223 THEN Cont(2, 128, 191) /\ Rest(3)
        ELSE IF b = 224 THEN Cont(2, 160, 191) /\ Cont(3, 128, 191) /\ Rest(4)
        ELSE IF b = 237 THEN Cont(2, 128, 159) /\ Cont(3, 128, 191) /\ Rest(4)
        ELSE IF b >= 225 /\ b <= 239
             THEN Cont(2, 128, 191) /\ Cont(3, 128, 191) /\ Rest(4)
        ELSE IF b = 240
             THEN Cont(2, 144, 191) /\ Cont(3, 128, 191) /\ Cont(4, 128, 191) /\ Rest(5)
        ELSE IF b >= 241 /\ b <= 243
             THEN Cont(2, 128, 191) /\ Cont(3, 128, 191) /\ Cont(4, 128, 191) /\ Rest(5)
        ELSE IF b = 244
             THEN Cont(2, 128, 143) /\ Cont(3, 128, 191) /\ Cont(4, 128, 191) /\ Rest(5)
        ELSE FALSE

\* String::from_utf8
FromUtf8(bytes) == IF ValidUtf8(bytes) THEN Ok(bytes) ELSE Err("FromUtf8Error")

----------------------------------------------------------------------------
(* std::process::Command as pipe() uses it *)

\* Stdio of a Command that was never configured.
Unset == [kind |-> "unset", child |-> 0]

\* Stdio::piped()
Piped == [kind |-> "piped", child |-> 0]

\* The ChildStdout of the k-th process of this call, used as a Stdio.
FromChild(k) == [kind |-> "pipe", child |-> k]

\* Command::new followed by Command::arg for the tokens 1.. and
\* Command::stdout(Stdio::piped()).
BuildCommand(command_str) ==
    [program |-> command_str[1],
     args    |-> Tail(command_str),
     stdin   |-> Unset,
     stdout  |-> Piped]

\* Command::stdin
WithStdin(cmd, stdio) == [cmd EXCEPT !.stdin = stdio]

\* The process record the OS keeps for one spawn attempt of cmd.  `dflt` is
\* what an unset stdin becomes: inherited for Command::spawn, the null
\* device for Command::output.
Proc(cmd, stage, dflt) ==
    [stage   |-> stage,
     program |-> cmd.program,
     args    |-> cmd.args,
     stdin   |-> IF cmd.stdin.kind = "unset"
                 THEN [kind |-> dflt, child |-> 0] ELSE cmd.stdin,
     started |-> SpawnError(cmd.program) = None]

\* Child::stdout of the process about to be appended to ps.
ChildStdoutOf(cmd, ps) ==
    IF cmd.stdout.kind = "piped" THEN Some(FromChild(Len(ps) + 1)) ELSE None

\* Command::spawn, and the start of the child inside Command::output: the
\* Child, or the io::Error of the OS.
Spawn(cmd, ps) ==
    IF SpawnError(cmd.program) = None
    THEN Ok([stdout |-> ChildStdoutOf(cmd, ps)])
    ELSE Err(SpawnError(cmd.program)[1])

RECURSIVE Written(_, _)
\* The bytes process k of ps writes to its standard output.
Written(ps, k) ==
    LET p == ps[k]
        input == CASE p.stdin.kind = "pipe" -> Written(ps, p.stdin.child)
                   [] p.stdin.kind = "inherit" -> ParentStdin
                   [] OTHER -> << >>
    IN  IF p.started THEN Transform(p.program, p.args, input) ELSE << >>

RECURSIVE Exits(_, _, _)
\* Process k of ps exits under the OS behaviour st: it does not hang, and
\* when it reads a pipe to its end the process writing that pipe exits.
Exits(ps, k, st) ==
    LET p == ps[k]
    IN  /\ st[p.stage] # Hung
        /\ (ReadsStdin(p.program) /\ p.stdin.kind = "pipe")
              => Exits(ps, p.stdin.child, st)

----------------------------------------------------------------------------
(* The errors pipe() builds *)

\* NoCommandsError with the message of the other format error.
NoCommandsError_pasted == ErrorNew("InvalidFormatError", Some(-1), <<"no command binary supplied">>)

\* lib.rs 28-32 and 83-87
NoCommandsError == ErrorNew("InvalidFormatError", Some(-1), <<"no commands supplied">>)

\* NoBinaryError without the sentinel code.
NoBinaryError_nocode == ErrorNew("InvalidFormatError", None, <<"no command binary supplied">>)

\* lib.rs 41-45
NoBinaryError == ErrorNew("InvalidFormatError", Some(-1), <<"no command binary supplied">>)

\* SpawnFailedError that reports the OS error number as the last stage does.
SpawnFailedError_raw(e) == ErrorNew("OsError", e.raw, <<"spawning failed: ", e.msg>>)

\* lib.rs 68-72
SpawnFailedError(e) == ErrorNew("ExecError", Some(-1), <<"spawning failed: ", e.msg>>)

\* NonZeroExitError with the sentinel instead of the exit code.
NonZeroExitError_sentinel(status) == ErrorNew("ExecError", Some(-1), <<"non-zero exit code">>)

\* lib.rs 92-96
NonZeroExitError(status) == ErrorNew("ExecError", Code(status), <<"non-zero exit code">>)

\* lib.rs 100-104
DecodeError == ErrorNew("UnicodeDecodeError", None, <<"utf-8 decode failed">>)

\* StartError that does not look whether the io::Error has a number.
StartError_always_os(e) == ErrorNew("OsError", e.raw, <<e.msg>>)

\* lib.rs 107-117
StartError(e) ==
    IF e.raw # None
    THEN ErrorNew("OsError", Some(e.raw[1]), <<e.msg>>)
    ELSE ErrorNew("UnknownError", None, <<e.msg>>)

\* Classify that decodes before it looks at the exit status.
Classify_decode_first(output) ==
    LET decoded == FromUtf8(output.stdout)
    IN  IF decoded.tag # "Ok" THEN Err(DecodeError)
        ELSE IF ~Success(output.status) THEN Err(NonZeroExitError(output.status))
        ELSE Ok(decoded.value)

\* lib.rs 90-106: the result for an Output of the last stage.
Classify(output) ==
    IF ~Success(output.status)
    THEN Err(NonZeroExitError(output.status))
    ELSE LET decoded == FromUtf8(output.stdout)
         IN  IF decoded.tag = "Ok" THEN Ok(decoded.value) ELSE Err(DecodeError)

----------------------------------------------------------------------------
(* Inputs *)

\* The stages pipelines are made of.
StageChoices ==
    { << >>,
      <<"/does/not/exist">>,
      <<"nul\\0byte">>,
      <<"/usr/bin/false">>,
      <<"echo", "foo">>,
      <<"rev">>,
      <<"tr", "a-z", "A-Z">>,
      <<"printf", "\\377">> }

Pipelines == UNION { [1..n -> StageChoices] : n \in 0..MaxStages }

ProgramOf(command_str) == IF command_str = << >> THEN "" ELSE command_str[1]

\* The behaviours the OS can show for a pipeline: one exit status per stage.
OsBehaviours(cmds) ==
    { st \in [0..(Len(cmds) - 1) -> {Exited(0), Exited(1), Signaled(9), Hung}] :
        \A k \in 0..(Len(cmds) - 1) : st[k] \in Statuses(ProgramOf(cmds[k + 1])) }

----------------------------------------------------------------------------
(* pipe() *)

Init ==
    /\ commands \in Pipelines
    /\ os \in OsBehaviours(commands)
    /\ pc = "entry"
    /\ i = 0
    /\ command = None
    /\ last_command = None
    /\ procs = << >>
    /\ out = None
    /\ result = None
    /\ history = << >>

\* return Err(e) / Ok(v)
Return(r) ==
    /\ result' = Some(r)
    /\ pc' = "done"

\* Entry with last_command kept from the previous call, as a static would be.
Entry_static ==
    /\ pc = "entry"
    /\ IF Len(commands) < 1
       THEN /\ Return(Err(NoCommandsError))
            /\ UNCHANGED <<i, last_command>>
       ELSE /\ UNCHANGED last_command
            /\ i' = 0
            /\ pc' = IF 0 < Len(commands) THEN "validate" ELSE "output"
            /\ UNCHANGED result
    /\ UNCHANGED <<commands, os, command, procs, out, history>>

\* lib.rs 27-37: the length check, `let mut last_command = None` and the
\* start of `for i in 0..commands.len()`.
Entry ==
    /\ pc = "entry"
    /\ IF Len(commands) < 1
       THEN /\ Return(Err(NoCommandsError))
            /\ UNCHANGED <<i, last_command>>
       ELSE /\ last_command' = None
            /\ i' = 0
            /\ pc' = IF 0 < Len(commands) THEN "validate" ELSE "output"
            /\ UNCHANGED result
    /\ UNCHANGED <<commands, os, command, procs, out, history>>

\* Validate that looks at the tokens only after the previous command was
\* spawned.
Validate_late ==
    /\ pc = "validate"
    /\ IF Len(commands[i + 1]) = 0
       THEN /\ Return(Err(NoBinaryError))
            /\ procs' = IF last_command # None
                        THEN Append(procs, Proc(last_command[1], i - 1, "inherit"))
                        ELSE procs
       ELSE /\ pc' = "construct"
            /\ UNCHANGED <<result, procs>>
    /\ UNCHANGED <<commands, os, i, command, last_command, out, history>>

\* Validate that passes over a stage without tokens instead of returning.
Validate_skip ==
    /\ pc = "validate"
    /\ IF Len(commands[i + 1]) = 0
       THEN IF i = 0
            THEN Return(Err(NoBinaryError)) /\ UNCHANGED i
            ELSE /\ i' = i + 1
                 /\ pc' = IF i + 1 < Len(commands) THEN "validate" ELSE "output"
                 /\ UNCHANGED result
       ELSE /\ pc' = "construct"
            /\ UNCHANGED <<result, i>>
    /\ UNCHANGED <<commands, os, command, last_command, procs, out, history>>

\* lib.rs 38-46
Validate ==
    /\ pc = "validate"
    /\ IF Len(commands[i + 1]) = 0
       THEN Return(Err(NoBinaryError))
       ELSE /\ pc' = "construct"
            /\ UNCHANGED result
    /\ UNCHANGED <<commands, os, i, command, last_command, procs, out, history>>

\* lib.rs 48-57
Construct ==
    /\ pc = "construct"
    /\ command' = Some(BuildCommand(commands[i + 1]))
    /\ pc' = "spawn_prev"
    /\ UNCHANGED <<commands, os, i, last_command, procs, out, result, history>>

\* Store that loses the command it was given.
Store_forget(cmd) ==
    /\ last_command' = None
    /\ command' = None
    /\ i' = i + 1
    /\ pc' = IF i + 1 < Len(commands) THEN "validate" ELSE "output"
    /\ UNCHANGED result

\* lib.rs 77-78: store the command, next iteration or leave the loop.
Store(cmd) ==
    /\ last_command' = Some(cmd)
    /\ command' = None
    /\ i' = i + 1
    /\ pc' = IF i + 1 < Len(commands) THEN "validate" ELSE "output"
    /\ UNCHANGED result

\* Wire that forgets to connect the child's stdout.
Wire_unconnected(cmd, r) == cmd

\* Wire that connects every command to the stdout of the first child.
Wire_first(cmd, r) == IF r.stdout # None THEN WithStdin(cmd, FromChild(1)) ELSE cmd

\* lib.rs 63-65: `if let Some(stdout) = r.stdout { command.stdin(stdout); }`
Wire(cmd, r) == IF r.stdout # None THEN WithStdin(cmd, r.stdout[1]) ELSE cmd

\* SpawnPrev that runs the previous command to its end and checks its status.
SpawnPrev_checked ==
    /\ pc = "spawn_prev"
    /\ IF last_command # None
       THEN LET prev == last_command[1]
                r == Spawn(prev, procs)
            IN  /\ procs' = Append(procs, Proc(prev, i - 1, "inherit"))
                /\ IF r.tag = "Ok" /\ Success(os[i - 1])
                   THEN Store(Wire(command[1], r.value))
                   ELSE /\ Return(Err(IF r.tag = "Ok"
                                      THEN NonZeroExitError(os[i - 1])
                                      ELSE SpawnFailedError(r.error)))
                        /\ UNCHANGED <<i, command, last_command>>
       ELSE /\ Store(command[1])
            /\ UNCHANGED procs
    /\ UNCHANGED <<commands, os, out, history>>

\* SpawnPrev that goes on with the next stage when the spawn failed.
SpawnPrev_swallow ==
    /\ pc = "spawn_prev"
    /\ IF last_command # None
       THEN LET prev == last_command[1]
                r == Spawn(prev, procs)
            IN  /\ procs' = Append(procs, Proc(prev, i - 1, "inherit"))
                /\ IF r.tag = "Ok"
                   THEN Store(Wire(command[1], r.value))
                   ELSE Store(command[1])
       ELSE /\ Store(command[1])
            /\ UNCHANGED procs
    /\ UNCHANGED <<commands, os, out, history>>

\* SpawnPrev that tries a failed spawn a second time.
SpawnPrev_retry ==
    /\ pc = "spawn_prev"
    /\ IF last_command # None
       THEN LET prev == last_command[1]
                r == Spawn(prev, procs)
            IN  IF r.tag = "Ok"
                THEN /\ procs' = Append(procs, Proc(prev, i - 1, "inherit"))
                     /\ Store(Wire(command[1], r.value))
                ELSE /\ procs' = procs \o <<Proc(prev, i - 1, "inherit"),
                                            Proc(prev, i - 1, "inherit")>>
                     /\ Return(Err(SpawnFailedError(r.error)))
                     /\ UNCHANGED <<i, command, last_command>>
       ELSE /\ Store(command[1])
            /\ UNCHANGED procs
    /\ UNCHANGED <<commands, os, out, history>>

\* lib.rs 59-78
SpawnPrev ==
    /\ pc = "spawn_prev"
    /\ IF last_command # None
       THEN LET prev == last_command[1]
                r == Spawn(prev, procs)
            IN  /\ procs' = Append(procs, Proc(prev, i - 1, "inherit"))
                /\ IF r.tag = "Ok"
                   THEN Store(Wire(command[1], r.value))
                   ELSE /\ Return(Err(SpawnFailedError(r.error)))
                        /\ UNCHANGED <<i, command, last_command>>
       ELSE /\ Store(command[1])
            /\ UNCHANGED procs
    /\ UNCHANGED <<commands, os, out, history>>

\* lib.rs 81-89 and 107-117: the last command is started by Command::output.
Output ==
    /\ pc = "output"
    /\ IF last_command = None
       THEN /\ Return(Err(NoCommandsError))
            /\ UNCHANGED procs
       ELSE LET cmd == last_command[1]
                r == Spawn(cmd, procs)
            IN  /\ procs' = Append(procs, Proc(cmd, Len(commands) - 1, "null"))
                /\ IF r.tag = "Ok"
                   THEN /\ pc' = "wait"
                        /\ UNCHANGED result
                   ELSE Return(Err(StartError(r.error)))
    /\ UNCHANGED <<commands, os, i, command, last_command, out, history>>

\* Wait that does not block: it takes what there is, as a poll would.
Wait_poll ==
    /\ pc = "wait"
    /\ out' = Some([status |-> os[procs[Len(procs)].stage],
                    stdout |-> Written(procs, Len(procs))])
    /\ pc' = "classify"
    /\ UNCHANGED <<commands, os, i, command, last_command, procs, result, history>>

\* Wait that also waits for the processes of the stages before the last.
Wait_all ==
    /\ pc = "wait"
    /\ \A k \in 1..Len(procs) : Exits(procs, k, os)
    /\ out' = Some([status |-> os[procs[Len(procs)].stage],
                    stdout |-> Written(procs, Len(procs))])
    /\ pc' = "classify"
    /\ UNCHANGED <<commands, os, i, command, last_command, procs, result, history>>

\* lib.rs 89: Command::output waits for the child and collects its stdout.
\* It blocks as long as the child has not exited.
Wait ==
    /\ pc = "wait"
    /\ Exits(procs, Len(procs), os)
    /\ out' = Some([status |-> os[procs[Len(procs)].stage],
                    stdout |-> Written(procs, Len(procs))])
    /\ pc' = "classify"
    /\ UNCHANGED <<commands, os, i, command, last_command, procs, result, history>>

\* lib.rs 90-106
Finish ==
    /\ pc = "classify"
    /\ Return(Classify(out[1]))
    /\ UNCHANGED <<commands, os, i, command, last_command, procs, out, history>>

\* The caller calls pipe() once more with the same pipeline.  The OS either
\* behaves as before or lets one stage before the last end differently.  The
\* processes and temporaries of the call that returned are gone; last_command
\* is initialised by the new call itself (lib.rs 35).
CallAgain ==
    /\ pc = "done"
    /\ history = << >>
    /\ history' = Append(history, [os |-> os, result |-> result[1]])
    /\ \/ os' = os
       \/ \E k \in 0..(Len(commands) - 2) :
            \E s \in Statuses(ProgramOf(commands[k + 1])) \ {os[k]} :
                os' = [os EXCEPT ![k] = s]
    /\ pc' = "entry"
    /\ i' = 0
    /\ command' = None
    /\ procs' = << >>
    /\ out' = None
    /\ result' = None
    /\ UNCHANGED <<commands, last_command>>

Next ==
    \/ Entry
    \/ Validate
    \/ Construct
    \/ SpawnPrev
    \/ Output
    \/ Wait
    \/ Finish
    \/ CallAgain

Spec == Init /\ [][Next]_vars

\* One step of a call of pipe().
Step ==
    \/ Entry
    \/ Validate
    \/ Construct
    \/ SpawnPrev
    \/ Output
    \/ Wait
    \/ Finish

\* One call of pipe(): it runs on one thread that is never stopped, so a call
\* that can take a step takes it.
FairSpec == Init /\ [][Step]_vars /\ WF_vars(Step)

----------------------------------------------------------------------------
(* Vocabulary of the properties *)

NumStages == Len(commands)

Stages == 0..(NumStages - 1)

Returned == pc = "done"

IsEmptyStage(k) == commands[k + 1] = << >>

\* Stage k names a program the OS can start.
CanSpawn(k) == ~IsEmptyStage(k) /\ SpawnError(commands[k + 1][1]) = None

AllCanSpawn == \A k \in Stages : CanSpawn(k)

\* The call returned the failure `kind` with `code`.
Failed(kind, code) ==
    /\ Returned
    /\ result[1].tag = "Err"
    /\ result[1].error.kind = kind
    /\ result[1].error.code = code

FailedWith(kind, code, details) ==
    Failed(kind, code) /\ result[1].error.details = details

\* success, or the kind of the failure
Classification(r) == IF r.tag = "Ok" THEN "success" ELSE r.error.kind

\* The lowest index of a stage without tokens.
FirstEmpty == CHOOSE k \in Stages : IsEmptyStage(k) /\ \A j \in 0..(k - 1) : ~IsEmptyStage(j)

RECURSIVE Composed(_)
\* What stage k writes when every stage reads what the stage before it wrote.
Composed(k) ==
    Transform(commands[k + 1][1], Tail(commands[k + 1]),
              IF k = 0 THEN << >> ELSE Composed(k - 1))

----------------------------------------------------------------------------
(* C1 *)

\* C1 as stated: every pipeline with a stage of zero tokens, wherever it is
\* and whatever the other stages are, ends in InvalidFormatError with code -1.
C1_AnyEmptyStageIsInvalidFormat ==
    (Returned /\ \E k \in Stages : IsEmptyStage(k))
        => Failed("InvalidFormatError", Some(-1))

\* C1 amended: with k the lowest index of a stage of zero tokens, the call
\* ends in InvalidFormatError with code -1 when every stage 0..k-2 can be
\* spawned, and in ExecError with code -1 when one of them cannot.
C1_FirstEmptyStageReached ==
    (Returned /\ \E k \in Stages : IsEmptyStage(k))
        => IF \A j \in 0..(FirstEmpty - 2) : CanSpawn(j)
           THEN FailedWith("InvalidFormatError", Some(-1), <<"no command binary supplied">>)
           ELSE Failed("ExecError", Some(-1))

\* An empty third stage is found after the first stage was spawned, with a
\* second stage that could not have been spawned.
C1_Witness ==
    /\ Returned
    /\ NumStages = 3
    /\ IsEmptyStage(2)
    /\ ~IsEmptyStage(1) /\ ~CanSpawn(1)
    /\ Len(procs) = 1
    /\ Failed("InvalidFormatError", Some(-1))

----------------------------------------------------------------------------
(* C2 *)

\* C2: the empty pipeline ends in InvalidFormatError, code -1, details
\* "no commands supplied", and no process is ever spawned for it.
C2_EmptyPipeline ==
    NumStages = 0
        => /\ procs = << >>
           /\ Returned => FailedWith("InvalidFormatError", Some(-1), <<"no commands supplied">>)

C2_Witness == Returned /\ NumStages = 0 /\ history # << >>

----------------------------------------------------------------------------
(* C3 *)

\* The kinds the specification lists.
SpecKinds ==
    {"InvalidFormatError", "OsError", "ExecError", "UnicodeDecodeError", "UnknownError"}

\* C3: every failure pipe returns has one of the five listed kinds, and the
\* five listed kinds are exactly the kinds enum ErrorKind defines.
C3_KindsClosed ==
    (Returned /\ result[1].tag = "Err")
        => /\ result[1].error.kind \in SpecKinds
           /\ SpecKinds = ErrorKind

----------------------------------------------------------------------------
(* C4 *)

\* C4: when all stages are non-empty and can be spawned and the last stage
\* ends with a non-zero status, the call ends in ExecError with the exit code
\* of the last stage (no code when a signal killed it) and details
\* "non-zero exit code".
C4_NonZeroExit ==
    (Returned /\ NumStages >= 1 /\ AllCanSpawn /\ ~Success(os[NumStages - 1]))
        => FailedWith("ExecError",
                      IF os[NumStages - 1].exited
                      THEN Some(os[NumStages - 1].val) ELSE None,
                      <<"non-zero exit code">>)

\* Both shapes happen: a last stage that exits with 1 ...
C4_Witness ==
    /\ Returned /\ NumStages >= 2 /\ AllCanSpawn
    /\ os[NumStages - 1] = Exited(1)
    /\ Failed("ExecError", Some(1))

\* ... and a last stage killed by a signal.
C4_WitnessSignal ==
    /\ Returned /\ NumStages >= 2 /\ AllCanSpawn
    /\ ~os[NumStages - 1].exited
    /\ Failed("ExecError", None)

----------------------------------------------------------------------------
(* C5 *)

\* The last spawn attempt was the start of the last stage by Command::output
\* and the OS refused it.
LastStageStartFailed ==
    /\ procs # << >>
    /\ procs[Len(procs)].stage = NumStages - 1
    /\ ~procs[Len(procs)].started

\* C5: when the last stage cannot be started the call ends in OsError with
\* the raw OS error number if the io::Error has one, and in UnknownError
\* without a code otherwise.
C5_LastStageStartFailure ==
    LastStageStartFailed
        => LET e == SpawnError(commands[NumStages][1])[1]
           IN  /\ Returned
               /\ IF e.raw # None
                  THEN Failed("OsError", Some(e.raw[1]))
                  ELSE Failed("UnknownError", None)
               /\ result[1].error.kind \notin {"ExecError", "InvalidFormatError"}

\* A start failure without an OS error number, after two spawned stages.
C5_Witness ==
    /\ LastStageStartFailed
    /\ NumStages = 3
    /\ SpawnError(commands[NumStages][1])[1].raw = None
    /\ Failed("UnknownError", None)

----------------------------------------------------------------------------
(* C6 *)

----------------------------------------------------------------------------
(* C7 *)

\* C7: for a pipeline whose stages all spawn, two calls that differ in the
\* exit status of a stage before the last have the same classification, and
\* a last stage that exits with zero never gives ExecError.
C7_OnlyLastStatusCounts ==
    (Returned /\ NumStages >= 1 /\ AllCanSpawn)
        => /\ history # << >>
                => Classification(history[1].result) = Classification(result[1])
           /\ Success(os[NumStages - 1]) => Classification(result[1]) # "ExecError"

\* The second call saw another status of an intermediate stage, a failing
\* one, and succeeded as the first did.
C7_Witness ==
    /\ Returned /\ NumStages = 3 /\ AllCanSpawn
    /\ history # << >>
    /\ history[1].os # os
    /\ \E k \in 0..(NumStages - 2) : ~Success(os[k])
    /\ result[1].tag = "Ok"

----------------------------------------------------------------------------
(* C8 *)

\* C8: when the captured bytes of the last stage are not valid UTF-8, a zero
\* exit status gives UnicodeDecodeError without a code and a non-zero exit
\* status gives ExecError.
C8_DecodeAfterStatus ==
    (Returned /\ out # None /\ ~ValidUtf8(out[1].stdout))
        => IF out[1].status.exited /\ out[1].status.val = 0
           THEN FailedWith("UnicodeDecodeError", None, <<"utf-8 decode failed">>)
           ELSE Failed("ExecError", Code(out[1].status))

\* Invalid bytes with a zero exit.
C8_Witness ==
    /\ Returned /\ out # None /\ ~ValidUtf8(out[1].stdout)
    /\ out[1].status = Exited(0)
    /\ NumStages >= 2
    /\ Failed("UnicodeDecodeError", None)

\* Invalid bytes with a non-zero exit.
C8_WitnessNonZero ==
    /\ Returned /\ out # None /\ ~ValidUtf8(out[1].stdout)
    /\ out[1].status = Exited(1)
    /\ Failed("ExecError", Some(1))

----------------------------------------------------------------------------
(* C9 *)

\* C9: when all stages are non-empty and spawn, the last one exits with zero
\* and the composition of the stages is valid UTF-8, the call returns exactly
\* that composition, each stage reading what the stage before it wrote.
C9_Composition ==
    (Returned /\ NumStages >= 1 /\ AllCanSpawn /\ Success(os[NumStages - 1])
        /\ ValidUtf8(Composed(NumStages - 1)))
        => result[1] = Ok(Composed(NumStages - 1))

\* echo foo | rev | tr a-z A-Z returns "OOF\n", the newline kept.
C9_Witness ==
    /\ Returned
    /\ commands = << <<"echo", "foo">>, <<"rev">>, <<"tr", "a-z", "A-Z">> >>
    /\ result[1] = Ok(<<79, 79, 70, 10>>)

----------------------------------------------------------------------------
(* C10 *)

\* C10: a second call with the same pipeline under the same OS behaviour
\* returns what the first call returned.
C10_SameCallSameResult ==
    (Returned /\ history # << >> /\ history[1].os = os)
        => history[1].result = result[1]

\* Both a success with output and a failure are repeated.
C10_Witness ==
    /\ Returned /\ history # << >> /\ history[1].os = os
    /\ NumStages = 3
    /\ result[1].tag = "Ok" /\ result[1].value # << >>

C10_WitnessFailure ==
    /\ Returned /\ history # << >> /\ history[1].os = os
    /\ NumStages = 3
    /\ result[1].tag = "Err" /\ procs # << >>

----------------------------------------------------------------------------
(* C11 *)

\* The stages of which a process is running or has run in this call.
SpawnedStages == { procs[k].stage : k \in { m \in 1..Len(procs) : procs[m].started } }

\* The call returned because stage i has no tokens.
ValidationFailed == FailedWith("InvalidFormatError", Some(-1), <<"no command binary supplied">>)

\* C11 as stated: when validation fails on stage i, the stages 0..i-1 have all
\* been spawned, and no process was started only if i = 0.
C11_AllEarlierStagesSpawned ==
    ValidationFailed
        => /\ SpawnedStages = 0..(i - 1)
           /\ procs = << >> => i = 0

\* C11 amended: when validation fails on stage i, which is then the first
\* stage without tokens, exactly the stages 0..i-2 have been spawned; stage
\* i-1 was built and never spawned.  No process was started exactly when
\* i is 0 or 1.
C11_AllButPreviousStageSpawned ==
    ValidationFailed
        => /\ i = FirstEmpty
           /\ SpawnedStages = 0..(i - 2)
           /\ Len(procs) = Cardinality(SpawnedStages)
           /\ i = 0 => last_command = None
           /\ i > 0 => last_command # None /\ last_command[1].program = commands[i][1]
           /\ procs = << >> <=> i <= 1

\* The third stage is empty: stage 0 runs, stage 1 was only built.
C11_Witness ==
    /\ ValidationFailed
    /\ i = 2
    /\ SpawnedStages = {0}
    /\ last_command[1].program = commands[2][1]

----------------------------------------------------------------------------
(* C12 *)

\* The stages whose tokens the running call has checked and found non-empty.
PassedValidation ==
    { j \in CASE pc = "validate" -> 0..(i - 1)
              [] pc \in {"construct", "spawn_prev"} -> 0..i
              [] pc \in {"output", "wait", "classify"} -> 0..(i - 1)
              [] OTHER -> {} :
        ~IsEmptyStage(j) }

\* C12: a spawn of stage k is attempted only when every stage 0..k has
\* passed the non-empty check, and in every state all stages up to a stage
\* with a spawn attempt have tokens.
C12_ValidatedBeforeSpawn ==
    /\ [](\A k \in 1..Len(procs) : \A j \in 0..procs[k].stage : ~IsEmptyStage(j))
    /\ [][(procs' # procs /\ procs' # << >>)
            => \A j \in 0..procs'[Len(procs')].stage : j \in PassedValidation]_vars

\* Three stages, all with a spawn attempt.
C12_Witness ==
    /\ NumStages = 3
    /\ Len(procs) = 3
    /\ \A k \in 1..3 : procs[k].started

----------------------------------------------------------------------------
(* C13 *)

\* Stage k has no tokens or names a program the OS cannot start.
Defective(k) == IsEmptyStage(k) \/ ~CanSpawn(k)

LowestDefective == CHOOSE k \in Stages : Defective(k) /\ \A j \in 0..(k - 1) : ~Defective(j)

\* The call returned the failure that belongs to the defect of stage k.
FailedAsStage(k) ==
    IF IsEmptyStage(k) THEN Failed("InvalidFormatError", Some(-1))
    ELSE IF k < NumStages - 1 THEN Failed("ExecError", Some(-1))
    ELSE LET e == SpawnError(commands[k + 1][1])[1]
         IN  IF e.raw # None
             THEN Failed("OsError", Some(e.raw[1]))
             ELSE Failed("UnknownError", None)

\* C13 as stated: the failure returned is the one of the defective stage
\* with the smallest index.
C13_LowestDefectiveStageReported ==
    (Returned /\ \E k \in Stages : Defective(k)) => FailedAsStage(LowestDefective)

\* C13 amended: the failure returned is the one of the defective stage d with
\* the smallest index, unless d cannot be spawned and stage d+1 has no
\* tokens: then it is the InvalidFormatError of stage d+1.
C13_FirstDetectedDefectReported ==
    (Returned /\ \E k \in Stages : Defective(k))
        => LET d == LowestDefective
           IN  IF ~IsEmptyStage(d) /\ d < NumStages - 1 /\ IsEmptyStage(d + 1)
               THEN FailedAsStage(d + 1)
               ELSE FailedAsStage(d)

\* Stage 0 cannot be spawned and stage 2 is empty: the ExecError of stage 0.
C13_Witness ==
    /\ Returned
    /\ NumStages = 3
    /\ ~IsEmptyStage(0) /\ ~CanSpawn(0)
    /\ CanSpawn(1)
    /\ IsEmptyStage(2)
    /\ Failed("ExecError", Some(-1))

\* Stage 0 cannot be spawned and stage 1 is empty: the InvalidFormatError of
\* stage 1.
C13_WitnessException ==
    /\ Returned
    /\ NumStages >= 2
    /\ ~IsEmptyStage(0) /\ ~CanSpawn(0)
    /\ IsEmptyStage(1)
    /\ Failed("InvalidFormatError", Some(-1))

----------------------------------------------------------------------------
(* C14 *)

\* C14: the k-th spawn attempt of a call is the one of stage k-1, so the
\* stages with an attempt are always a prefix of the pipeline and attempts are
\* only added at its end; the last stage is attempted only after the loop has
\* built every stage and every stage before the last was spawned with success.
C14_LeftToRight ==
    /\ [](/\ \A k \in 1..Len(procs) : procs[k].stage = k - 1
          /\ Len(procs) <= NumStages
          /\ (NumStages >= 1 /\ Len(procs) = NumStages)
                => /\ \A m \in 1..(NumStages - 1) : procs[m].started
                   /\ i = NumStages
                   /\ pc \in {"wait", "classify", "done"})
    /\ [][procs' # procs
            => \/ procs' = << >> /\ pc = "done"
               \/ /\ Len(procs') = Len(procs) + 1
                  /\ SubSeq(procs', 1, Len(procs)) = procs]_vars

\* The last of three stages has been started after the two before it.
C14_Witness ==
    /\ NumStages = 3
    /\ Len(procs) = 3
    /\ procs[3].started
    /\ pc = "wait"

----------------------------------------------------------------------------
(* C15 *)

\* The processes of this call that read the stdout of process c.
Readers(c) == { k \in 1..Len(procs) : procs[k].stdin = FromChild(c) }

\* The stdout of process c is the one Command::output collects.
Captured(c) == procs[c].stage = NumStages - 1

\* C15: the process of every stage after the first reads the stdout of the
\* process of the stage before it and the process of stage 0 reads no pipe;
\* the stdout of a process is read by the next process only, or collected by
\* the call when it is the last stage, never both and never by two; the
\* command waiting to be spawned holds the stdout of the newest process.
C15_Wiring ==
    /\ \A k \in 1..Len(procs) :
          /\ IF procs[k].stage > 0
             THEN /\ procs[k].stdin = FromChild(k - 1)
                  /\ procs[k - 1].stage = procs[k].stage - 1
                  /\ procs[k - 1].started
             ELSE procs[k].stdin.kind \in {"inherit", "null"}
          /\ Readers(k) \subseteq {k + 1}
          /\ Captured(k) => Readers(k) = {}
    /\ (pc \in {"validate", "construct", "spawn_prev", "output"} /\ last_command # None)
          => last_command[1].stdin = IF procs = << >> THEN Unset ELSE FromChild(Len(procs))

\* Three started stages: the second reads the first, the third the second,
\* and the call collects the third.
C15_Witness ==
    /\ NumStages = 3
    /\ Len(procs) = 3
    /\ procs[3].started
    /\ Readers(1) = {2} /\ Readers(2) = {3} /\ Readers(3) = {}
    /\ Captured(3)

----------------------------------------------------------------------------
(* C16 *)

\* C16: no stage has two spawn attempts in a call; a failed spawn attempt is
\* the last one and the call has returned its error without waiting on
\* anything; a stage without tokens is never built or spawned; the step after
\* the status and the bytes of the last stage are known returns; and after an
\* error was returned the call does nothing more.
C16_NoRetries ==
    /\ [](/\ \A k, m \in 1..Len(procs) : procs[k].stage = procs[m].stage => k = m
          /\ \A k \in 1..Len(procs) :
                ~procs[k].started
                    => /\ k = Len(procs)
                       /\ Returned /\ result[1].tag = "Err"
                       /\ out = None
          /\ (pc # "entry" /\ i < NumStages /\ IsEmptyStage(i))
                => /\ pc \in {"validate", "done"}
                   /\ Len(procs) <= i
                   /\ out = None)
    /\ [][/\ pc = "classify"
                => pc' = "done" /\ procs' = procs /\ i' = i /\ out' = out
          /\ (pc = "done" /\ result[1].tag = "Err")
                => pc' = "entry" /\ procs' = << >> /\ result' = None]_vars

\* A spawn failed in the middle of three stages: one attempt per stage, the
\* third stage untouched.
C16_Witness ==
    /\ NumStages = 3
    /\ Returned
    /\ Len(procs) = 2
    /\ procs[1].started /\ ~procs[2].started
    /\ i = 2
    /\ result[1].tag = "Err"

----------------------------------------------------------------------------
(* C17 *)

\* A process of this call that was started never exits by itself.
SomeProcessHangs == \E k \in 1..Len(procs) : procs[k].started /\ os[procs[k].stage] = Hung

\* The last stage was started and never exits: it hangs, or it reads to the
\* end a pipe whose writer never exits.
LastStageNeverExits ==
    /\ NumStages >= 1
    /\ Len(procs) = NumStages
    /\ procs[NumStages].started
    /\ ~Exits(procs, NumStages, os)

\* C17 as stated: when any spawned process hangs, a stage before the last
\* or the last, the call never returns.
C17_AnyHangBlocks == SomeProcessHangs => ~Returned

\* C17 amended: when the last stage never exits, because it hangs or because
\* it reads to the end what a chain leading to a hung stage writes, the call
\* stays in Command::output for ever and returns nothing.  A hung stage before
\* the last blocks the call in no other way.
C17_LastStageHangBlocks ==
    /\ [](LastStageNeverExits => pc = "wait" /\ result = None /\ out = None)
    /\ [][~LastStageNeverExits]_vars
    /\ []((SomeProcessHangs /\ pc \notin {"done", "entry"} /\ ~LastStageNeverExits)
            => ENABLED Step)

\* The last stage would exit, but it reads the pipe of a stage that hangs.
C17_Witness ==
    /\ LastStageNeverExits
    /\ NumStages = 3
    /\ os[NumStages - 1] # Hung
    /\ pc = "wait"

----------------------------------------------------------------------------
(* C18 *)

\* C18: every call returns unless its last stage was started and never
\* exits; it has a result exactly when it has returned and the result of a
\* call never changes; a success is returned only after the last stage has
\* exited and its output was collected.  The call does not wait for the
\* stages before the last (C18_Witness).
C18_Termination ==
    /\ (pc = "entry") ~> (Returned \/ LastStageNeverExits)
    /\ [](Returned <=> result # None)
    /\ [][result # None => (result' = result \/ (pc' = "entry" /\ result' = None))]_vars
    /\ []((Returned /\ result[1].tag = "Ok")
            => /\ out # None
               /\ Len(procs) = NumStages
               /\ Exits(procs, NumStages, os)
               /\ result[1].value = out[1].stdout)

\* A success was returned while the process of the first stage still runs.
C18_Witness ==
    /\ Returned
    /\ result[1].tag = "Ok"
    /\ NumStages = 3
    /\ procs[1].started /\ os[0] = Hung

----------------------------------------------------------------------------
(* C19 *)

\* C19: when the loop is left without a return, last_command holds the
\* command of the last stage, so the None arm of the final match is never
\* taken: "no commands supplied" is returned for the empty pipeline only, and
\* then before the loop.
C19_LastCommandPresent ==
    /\ pc = "output"
          => /\ last_command # None
             /\ i = NumStages
             /\ NumStages >= 1
             /\ last_command[1].program = commands[NumStages][1]
    /\ (Returned /\ result[1].tag = "Err"
          /\ result[1].error.details = <<"no commands supplied">>)
          => NumStages = 0 /\ procs = << >> /\ last_command = None

\* The loop over three stages is left.
C19_Witness ==
    /\ pc = "output"
    /\ NumStages = 3
    /\ last_command # None

====
